---- MODULE Spec2Model ----
(***************************************************************************)
(* A model of find_breaks, the flat-run timeseries segmenter of the JWST   *)
(* engineering-data notebook (src/unnamed/part_000, lines 405-472).        *)
(*                                                                         *)
(* One call of find_breaks is a state machine: BuildFrame combines the     *)
(* two input series into xy_frame, Iterate is one pass of the body of      *)
(* `for n in range(1, len(x_vals))`, Finish is the code after the loop.    *)
(* Arrays keep the source's 0-based indices: an array of length L is a     *)
(* function with domain 0..L-1.                                            *)
(*                                                                         *)
(* CallAgain starts a second call on the same arguments and Switch hands   *)
(* the processor to a second thread that runs its own call: they are part  *)
(* of SpecRepeat and SpecThreads only.                                     *)
(*                                                                         *)
(* Three other pieces of the notebooks have a specification each:          *)
(* download_edb_datafiles (src/unnamed/part_000, lines 174-209) in         *)
(* SpecDownload, getdss (interm_tesscut_dss_overlay.ipynb, lines 322-375)  *)
(* in SpecDss and the chunking of matched_obs (src/unnamed/part_002,       *)
(* lines 99-100) in SpecChunks. SpecPlot hands a segment returned by       *)
(* find_breaks to plot_x_v_y_color (src/unnamed/part_000, lines 511-560).  *)
(***************************************************************************)
EXTENDS Integers, Sequences, FiniteSets, TLC

VARIABLES
    x_data,     \* input frame: 0..Lx-1 -> [euvalue, MJD]
    y_data,     \* input frame: 0..Ly-1 -> [euvalue, MJD]
    max_flats,  \* the threshold parameter
    pc,         \* "frame", "scan" or "done"
    xy_frame,   \* the combined frame: 0..L-1 -> [MJD, x_value, y_value]
    results,    \* the list of emitted slices, each [start, stop) of xy_frame
    m,          \* start index of the span being recorded
    flat,       \* the flat-sample counter
    recording,  \* whether a span is being recorded
    n,          \* the loop variable; Unbound before the first iteration
    raised,     \* "none", or the exception that ended the call
    call,       \* 1 during the first call of this thread, 2 during its second
    previous,   \* what the first call ended with, once it has ended
    other,      \* the parameters and locals of the other thread's call
    running,    \* the thread the variables above belong to: "A" or "B"
    preempted,  \* whether a thread was switched out while both were in the loop
    \* download_edb_datafiles
    filenames,      \* the file names to fetch, in order
    folder,         \* what is at the folder's path: "absent", "dir", "file" or "orphan"
    dl_pc,          \* "off", "mkdir", "loop" or "done"
    status,         \* the local `status`; Unbound before line 196
    attempts,       \* the urlretrieve calls made so far: [fname, outcome]
    dl_raised,      \* "none", or the exception that left the function
    dl_returned,    \* the value returned; Unbound before the return
    \* getdss
    plate, ra, dec, height, width, filename, directory,   \* the parameters
    given,          \* the arguments the call was made with
    dir_exists,     \* whether the directory named by `directory` exists
    vplate,         \* the local `vplate`
    r_content,      \* `r.content`, once the request is answered
    requests_made,  \* how many HTTP requests were sent
    disk,           \* the files written: a set of [name, content]
    dss_pc,         \* "off", "size", "plate", "name", "request", "write" or "done"
    dss_raised,     \* "none", or the exception that left the function
    dss_returned,   \* the value returned; NoPath before the return
    \* the chunking cell
    matched_obs,    \* the observations, a sequence
    chunks,         \* the chunks built so far
    chunk_i,        \* the value of i the comprehension is at
    chunk_pc,       \* "off", "loop" or "done"
    \* plot_x_v_y_color
    data,           \* the segment passed, [start, stop) of xy_frame
    indices,        \* the tick indices of line 541
    plot_pc,        \* "off", "ready" or "done"
    plot_raised     \* "none", or the exception that left the function

\* The parameters and locals of the running call.
scanVars == <<x_data, y_data, max_flats, pc, xy_frame, results, m, flat, recording, n, raised>>

callVars == <<call, previous, other, running, preempted>>

dlVars == <<filenames, folder, dl_pc, status, attempts, dl_raised, dl_returned>>

dssVars ==
    <<plate, ra, dec, height, width, filename, directory, given, dir_exists,
      vplate, r_content, requests_made, disk, dss_pc, dss_raised, dss_returned>>

chunkVars == <<matched_obs, chunks, chunk_i, chunk_pc>>

plotVars == <<data, indices, plot_pc, plot_raised>>

toolVars == <<dlVars, dssVars, chunkVars, plotVars>>

vars == <<scanVars, callVars, toolVars>>

----------------------------------------------------------------------------
(* Bounds of the model and the inputs drawn within them.                   *)

MaxLen == 5

MaxFlats == 3

MaxLongLen == 10

\* The default of the max_flats parameter.
DefaultMaxFlats == 5

\* A local name that no assignment has bound yet.
Unbound == 0 - 1

\* The cell pandas fills in when it reindexes a frame.
NaN == 0 - 1

\* Python's None, where a number may stand.
None == 0 - 1

\* Python's None, where a string may stand.
NoPath == "None"

\* The length of a 0-based array.
Size(a) == Cardinality(DOMAIN a)

\* The 0-based array holding the elements of the sequence s.
Array(s) == [i \in 0 .. Len(s) - 1 |-> s[i + 1]]

\* The array a without its last element.
DropLast(a) == [i \in 0 .. Size(a) - 2 |-> a[i]]

\* (x, y) readings of one sample: from one sample to the next x changes, y
\* changes, both change or neither does.
Readings == {<<0, 0>>, <<1, 0>>, <<0, 1>>}

\* Thresholds tried: the positive ones up to MaxFlats, zero and a negative one.
FlatsValues == (0 - 1) .. MaxFlats

\* The x series of a paired input: sample i is stamped MJD i.
XFrame(r) == [i \in DOMAIN r |-> [euvalue |-> r[i][1], MJD |-> i]]

\* The y series of a paired input: sample i is stamped MJD i where al[i], and a
\* later date where not (index 0 is never compared, so it is always stamped i).
YFrame(r, al) ==
    [i \in DOMAIN r |->
        [euvalue |-> r[i][2],
         MJD |-> IF i = 0 \/ al[i] THEN i ELSE i + MaxLen + 1]]

\* The scenario of the spec's section 8: x = y = [0,0,1,2,2,2,2,2,2,3].
ScenarioVals == <<0, 0, 1, 2, 2, 2, 2, 2, 2, 3>>

ScenarioFrame(k) ==
    [i \in 0 .. k - 1 |-> [euvalue |-> ScenarioVals[i + 1], MJD |-> i]]

----------------------------------------------------------------------------
(* Helpers of the scan, one per expression of the source.                  *)

x_vals == [i \in DOMAIN x_data |-> x_data[i].euvalue]

x_dates == [i \in DOMAIN x_data |-> x_data[i].MJD]

y_vals == [i \in DOMAIN y_data |-> y_data[i].euvalue]

y_dates == [i \in DOMAIN y_data |-> y_data[i].MJD]

Abs(v) == IF v < 0 THEN 0 - v ELSE v

x_diff(i) == Abs(x_vals[i - 1] - x_vals[i])

y_diff(i) == Abs(y_vals[i - 1] - y_vals[i])

\* `if x_dates[n] == y_dates[n]`
DatesMatch_always(i) == TRUE

DatesMatch(i) == x_dates[i] = y_dates[i]

\* `if (x_diff == 0 and y_diff == 0)`
NoChange(i) == x_diff(i) = 0 /\ y_diff(i) = 0

\* `elif (x_diff > 0 or y_diff > 0) and not recording`
ChangeWhileIdle_always(i) == x_diff(i) > 0 \/ y_diff(i) > 0

ChangeWhileIdle(i) == (x_diff(i) > 0 \/ y_diff(i) > 0) /\ ~recording

\* `elif flat >= max_flats`, read after `flat += 1`
FlatLimitReached_strict(f) == f > max_flats

FlatLimitReached(f) == f >= max_flats

\* `size = (n-max_flats) - m`
SpanSize(i) == (i - max_flats) - m

\* `if size > 1`
KeepSpan_nonempty(size) == size > 0

KeepSpan(size) == size > 1

\* the stop of the slice `xy_frame[m:n-(max_flats)]`
SliceStop_plus(i) == i + max_flats

SliceStop(i) == i - max_flats

\* `flat = 0` on a restart
RestartFlat_kept == flat

RestartFlat == 0

\* `results.append(...)`
Emit_front(list, seg) == <<seg>> \o list

Emit(list, seg) == Append(list, seg)

\* `m = n` on a restart
RestartStart_stale(i) == m

RestartStart(i) == i

\* `(n - m) > 1`, the second operand of the condition after the loop
KeepTail_long(i) == (i - m) > 2

KeepTail(i) == (i - m) > 1

\* A slice bound as Python resolves it on a frame of length len: a negative bound
\* counts from the end, and the result is clipped to 0..len.
Clip(bound, len) ==
    LET b == IF bound < 0 THEN bound + len ELSE bound
    IN  IF b < 0 THEN 0 ELSE IF b > len THEN len ELSE b

\* `xy_frame[a:b]`: the rows a..b-1, kept as the index range [start, stop).
Slice(a, b) ==
    LET lo == Clip(a, Size(xy_frame))
        hi == Clip(b, Size(xy_frame))
    IN  [start |-> lo, stop |-> IF hi < lo THEN lo ELSE hi]

\* `xy_frame[a:]`
SliceFrom(a) == Slice(a, Size(xy_frame))

\* The rows of a slice.
Rows(seg) == [i \in seg.start .. seg.stop - 1 |-> xy_frame[i]]

\* `results = []`
FreshResults_stale == results

FreshResults == <<>>

\* The next value `range(1, len(x_vals))` yields.
NextIndex == IF n = Unbound THEN 1 ELSE n + 1

----------------------------------------------------------------------------
(* The inputs.                                                             *)

InitState ==
    /\ pc = "frame"
    /\ xy_frame = Array(<<>>)
    /\ results = <<>>
    /\ m = 0
    /\ flat = 0
    /\ recording = TRUE
    /\ n = Unbound
    /\ raised = "none"

\* Paired series of every length up to MaxLen, with any mix of flat, changed
\* and misaligned samples.
InitPaired ==
    \E L \in 0 .. MaxLen :
        \E r \in [0 .. L - 1 -> Readings], al \in [0 .. L - 1 -> BOOLEAN] :
            /\ x_data = XFrame(r)
            /\ y_data = YFrame(r, al)
            /\ max_flats \in FlatsValues

\* Series of unequal length: one of the two is a sample short.
InitUnequal ==
    \E L \in 1 .. MaxLen :
        \E r \in [0 .. L - 1 -> Readings], short \in {"x", "y"} :
            LET al == [i \in 0 .. L - 1 |-> TRUE]
            IN  /\ x_data = IF short = "x" THEN DropLast(XFrame(r)) ELSE XFrame(r)
                /\ y_data = IF short = "y" THEN DropLast(YFrame(r, al)) ELSE YFrame(r, al)
                /\ max_flats \in FlatsValues

\* Longer paired series, fully aligned, in which only x moves: long enough for
\* several segments to be emitted in one scan.
InitLong ==
    \E L \in MaxLen + 1 .. MaxLongLen :
        \E r \in [0 .. L - 1 -> {<<0, 0>>, <<1, 0>>}] :
            LET al == [i \in 0 .. L - 1 |-> TRUE]
            IN  /\ x_data = XFrame(r)
                /\ y_data = YFrame(r, al)
                /\ max_flats \in FlatsValues

\* The scenario series and its prefixes, under the default threshold.
InitScenario ==
    \E k \in 0 .. Len(ScenarioVals) :
        /\ x_data = ScenarioFrame(k)
        /\ y_data = ScenarioFrame(k)
        /\ max_flats = DefaultMaxFlats

\* What a call ends with: the exception, or the list it returns.
Outcome(frame) ==
    [raised |-> frame.raised,
     results |-> IF frame.raised = "none" THEN frame.results ELSE <<>>]

\* The parameters and locals of a call about to start on (x, y, mf).
EntryFrame(x, y, mf) ==
    [x_data |-> x, y_data |-> y, max_flats |-> mf, pc |-> "frame",
     xy_frame |-> Array(<<>>), results |-> <<>>, m |-> 0, flat |-> 0,
     recording |-> TRUE, n |-> Unbound, raised |-> "none"]

\* No other thread.
NoThread == [EntryFrame(Array(<<>>), Array(<<>>), 0) EXCEPT !.pc = "absent"]

\* No call has ended yet.
NoOutcome == [raised |-> "pending", results |-> <<>>]

\* A single call, alone.
SingleCall ==
    /\ call = 1
    /\ previous = NoOutcome
    /\ other = NoThread
    /\ running = "A"
    /\ preempted = FALSE

\* download_edb_datafiles is not called.
DownloadIdle ==
    /\ filenames = <<>>
    /\ folder = "absent"
    /\ dl_pc = "off"
    /\ status = Unbound
    /\ attempts = <<>>
    /\ dl_raised = "none"
    /\ dl_returned = Unbound

\* getdss is not called.
DssIdle ==
    /\ plate = "red"
    /\ ra = 0
    /\ dec = 0
    /\ height = None
    /\ width = None
    /\ filename = NoPath
    /\ directory = NoPath
    /\ given = [height |-> None, width |-> None, filename |-> NoPath]
    /\ dir_exists = FALSE
    /\ vplate = NoPath
    /\ r_content = <<>>
    /\ requests_made = 0
    /\ disk = {}
    /\ dss_pc = "off"
    /\ dss_raised = "none"
    /\ dss_returned = NoPath

\* The chunking cell is not run.
ChunksIdle ==
    /\ matched_obs = <<>>
    /\ chunks = <<>>
    /\ chunk_i = 0
    /\ chunk_pc = "off"

\* plot_x_v_y_color is not called.
PlotIdle ==
    /\ data = [start |-> 0, stop |-> 0]
    /\ indices = {}
    /\ plot_pc = "off"
    /\ plot_raised = "none"

ToolsIdle == DownloadIdle /\ DssIdle /\ ChunksIdle /\ PlotIdle

Init ==
    /\ InitState
    /\ (InitPaired \/ InitUnequal \/ InitLong \/ InitScenario)
    /\ SingleCall
    /\ ToolsIdle

----------------------------------------------------------------------------
(* The operations.                                                         *)

\* Lines 429-438. Setting a column of another length raises ValueError, unless
\* the frame has no rows yet: pandas then takes the new column's index and
\* fills the columns already there with NaN.
BuildFrame ==
    /\ pc = "frame"
    /\ IF Size(x_vals) # Size(y_vals) /\ Size(x_vals) > 0
       THEN /\ raised' = "ValueError"
            /\ pc' = "done"
            /\ UNCHANGED <<xy_frame, results, m, flat, recording>>
       ELSE /\ xy_frame' =
                 [i \in DOMAIN y_vals |->
                     IF i \in DOMAIN x_vals
                     THEN [MJD |-> x_dates[i], x_value |-> x_vals[i], y_value |-> y_vals[i]]
                     ELSE [MJD |-> NaN, x_value |-> NaN, y_value |-> y_vals[i]]]
            /\ results' = FreshResults
            /\ m' = 0
            /\ flat' = 0
            /\ recording' = TRUE
            /\ pc' = "scan"
            /\ UNCHANGED raised
    /\ UNCHANGED <<x_data, y_data, max_flats, n>>
    /\ UNCHANGED <<callVars, toolVars>>

\* Lines 440-464: one pass of the loop body, for the next index of the range.
Iterate ==
    /\ pc = "scan"
    /\ NextIndex < Size(x_vals)
    /\ n' = NextIndex
    /\ IF DatesMatch(n')
       THEN IF NoChange(n')
            THEN /\ flat' = flat + 1
                 /\ IF ~recording
                    THEN UNCHANGED <<results, recording>>
                    ELSE IF FlatLimitReached(flat')
                         THEN /\ results' =
                                   IF KeepSpan(SpanSize(n'))
                                   THEN Emit(results, Slice(m, SliceStop(n')))
                                   ELSE results
                              /\ recording' = FALSE
                         ELSE UNCHANGED <<results, recording>>
                 /\ UNCHANGED m
            ELSE IF ChangeWhileIdle(n')
                 THEN /\ flat' = RestartFlat
                      /\ m' = RestartStart(n')
                      /\ recording' = TRUE
                      /\ UNCHANGED results
                 ELSE UNCHANGED <<results, m, flat, recording>>
       ELSE UNCHANGED <<results, m, flat, recording>>
    /\ UNCHANGED <<x_data, y_data, max_flats, pc, xy_frame, raised>>
    /\ UNCHANGED <<callVars, toolVars>>

\* Lines 466-472: the code after the loop. `recording and (n - m) > 1` reads n
\* only when recording holds; n is unbound when the loop body never ran.
Finish ==
    /\ pc = "scan"
    /\ ~(NextIndex < Size(x_vals))
    /\ pc' = "done"
    /\ IF recording /\ n = Unbound
       THEN /\ raised' = "UnboundLocalError"
            /\ UNCHANGED results
       ELSE /\ results' =
                 IF recording /\ KeepTail(n)
                 THEN Emit(results, SliceFrom(m))
                 ELSE results
            /\ UNCHANGED raised
    /\ UNCHANGED <<x_data, y_data, max_flats, xy_frame, m, flat, recording, n>>
    /\ UNCHANGED <<callVars, toolVars>>

Next == BuildFrame \/ Iterate \/ Finish

Spec == Init /\ [][Next]_vars

----------------------------------------------------------------------------
(* A second call, and a second thread.                                     *)

\* The parameters and locals of the running call, as a thread switch saves them.
Locals ==
    [x_data |-> x_data, y_data |-> y_data, max_flats |-> max_flats, pc |-> pc,
     xy_frame |-> xy_frame, results |-> results, m |-> m, flat |-> flat,
     recording |-> recording, n |-> n, raised |-> raised]

\* The same arguments are passed to find_breaks again once the first call has
\* ended. The new call's locals are unbound until it assigns them: n is read
\* before any assignment when the loop is empty, so it is marked; the others keep
\* whatever value the names last held.
CallAgain ==
    /\ pc = "done"
    /\ call = 1
    /\ running = "A"
    /\ call' = 2
    /\ previous' = Outcome(Locals)
    /\ pc' = "frame"
    /\ n' = Unbound
    /\ raised' = "none"
    /\ UNCHANGED <<x_data, y_data, max_flats, xy_frame, results, m, flat, recording>>
    /\ UNCHANGED <<other, running, preempted>>
    /\ UNCHANGED toolVars

\* flat is assigned in the body of find_breaks (line 437), so it is a local of
\* each call: a thread that resumes finds the value it left.
ResumedFlat_shared(saved) == flat

ResumedFlat(saved) == saved.flat

\* The scheduler takes the processor from the running thread, between two steps
\* of its call, and gives it to the other one, which resumes its own call. The
\* second thread runs during thread A's second call.
Switch ==
    /\ call = 2
    /\ other.pc \notin {"absent", "done"}
    /\ other' = Locals
    /\ running' = IF running = "A" THEN "B" ELSE "A"
    /\ preempted' = (preempted \/ (pc = "scan" /\ other.pc = "scan"))
    /\ x_data' = other.x_data
    /\ y_data' = other.y_data
    /\ max_flats' = other.max_flats
    /\ pc' = other.pc
    /\ xy_frame' = other.xy_frame
    /\ results' = other.results
    /\ m' = other.m
    /\ flat' = ResumedFlat(other)
    /\ recording' = other.recording
    /\ n' = other.n
    /\ raised' = other.raised
    /\ UNCHANGED <<call, previous>>
    /\ UNCHANGED toolVars

\* Two calls in a row on the same arguments.
InitRepeat ==
    /\ InitState
    /\ (InitUnequal \/ InitLong \/ InitScenario)
    /\ SingleCall
    /\ ToolsIdle

NextRepeat == BuildFrame \/ Iterate \/ Finish \/ CallAgain

SpecRepeat == InitRepeat /\ [][NextRepeat]_vars

MaxThreadLen == 4

\* Thread A scans any fully aligned series of up to MaxThreadLen samples; thread
\* B scans a series of its own in which x moves at every sample or at none.
InitThreads ==
    /\ InitState
    /\ \E L \in 0 .. MaxThreadLen :
          \E r \in [0 .. L - 1 -> Readings] :
              /\ x_data = XFrame(r)
              /\ y_data = YFrame(r, [i \in 0 .. L - 1 |-> TRUE])
    /\ max_flats \in 1 .. 2
    /\ call = 1
    /\ previous = NoOutcome
    /\ running = "A"
    /\ preempted = FALSE
    /\ \E L \in 0 .. MaxThreadLen, moving \in BOOLEAN, mf \in 1 .. 2 :
          LET r == [i \in 0 .. L - 1 |-> IF moving /\ i % 2 = 1 THEN <<1, 0>> ELSE <<0, 0>>]
          IN  other = EntryFrame(XFrame(r), YFrame(r, [i \in 0 .. L - 1 |-> TRUE]), mf)
    /\ ToolsIdle

NextThreads == BuildFrame \/ Iterate \/ Finish \/ CallAgain \/ Switch

SpecThreads == InitThreads /\ [][NextThreads]_vars

----------------------------------------------------------------------------
(* download_edb_datafiles, src/unnamed/part_000, lines 174-209.            *)

MaxFiles == 3

\* The file names asked for.
FileNames == {"a.csv", "b.csv"}

\* What urlretrieve does for one file: it saves it, raises HTTPError, or raises
\* another exception (URLError stands for those: the except clause of line 205
\* does not catch them).
Outcomes == {"ok", "HTTPError", "URLError"}

\* find_breaks is not called.
ScanIdle ==
    /\ x_data = NoThread.x_data
    /\ y_data = NoThread.y_data
    /\ max_flats = NoThread.max_flats
    /\ pc = NoThread.pc
    /\ xy_frame = NoThread.xy_frame
    /\ results = NoThread.results
    /\ m = NoThread.m
    /\ flat = NoThread.flat
    /\ recording = NoThread.recording
    /\ n = NoThread.n
    /\ raised = NoThread.raised
    /\ SingleCall

InitDownload ==
    /\ ScanIdle
    /\ PlotIdle
    /\ DssIdle
    /\ ChunksIdle
    /\ filenames \in UNION {[1 .. L -> FileNames] : L \in 0 .. MaxFiles}
    /\ folder \in {"absent", "dir", "file", "orphan"}
    /\ dl_pc = "mkdir"
    /\ status = Unbound
    /\ attempts = <<>>
    /\ dl_raised = "none"
    /\ dl_returned = Unbound

\* Lines 193-196. `mkdir(exist_ok=True)` creates the folder, accepts one that is
\* there, and raises when the path is a file or its parent is missing.
Mkdir ==
    /\ dl_pc = "mkdir"
    /\ IF folder \in {"file", "orphan"}
       THEN /\ dl_raised' = (IF folder = "file" THEN "FileExistsError" ELSE "FileNotFoundError")
            /\ dl_pc' = "done"
            /\ UNCHANGED <<folder, status>>
       ELSE /\ folder' = "dir"
            /\ status' = 0
            /\ dl_pc' = "loop"
            /\ UNCHANGED dl_raised
    /\ UNCHANGED <<filenames, attempts, dl_returned>>
    /\ UNCHANGED <<scanVars, callVars, dssVars, chunkVars, plotVars>>

\* Lines 203-207: the value of `status` after one urlretrieve call that either
\* returned or raised HTTPError.
StatusAfter_reset(outcome) == IF outcome = "HTTPError" THEN 1 ELSE 0

StatusAfter(outcome) == IF outcome = "HTTPError" THEN 1 ELSE status

\* The position in filenames of the name `for fname in filenames` yields next.
NextFile_again == IF attempts = <<>> THEN 1 ELSE Len(attempts)

NextFile == Len(attempts) + 1

\* Lines 197-207: one pass of `for fname in filenames`.
Download ==
    /\ dl_pc = "loop"
    /\ Len(attempts) < Len(filenames)
    /\ \E outcome \in Outcomes :
          /\ attempts' = Append(attempts, [fname |-> filenames[NextFile],
                                           outcome |-> outcome])
          /\ IF outcome = "URLError"
             THEN /\ dl_raised' = "URLError"
                  /\ dl_pc' = "done"
                  /\ UNCHANGED status
             ELSE /\ status' = StatusAfter(outcome)
                  /\ UNCHANGED <<dl_raised, dl_pc>>
    /\ UNCHANGED <<filenames, folder, dl_returned>>
    /\ UNCHANGED <<scanVars, callVars, dssVars, chunkVars, plotVars>>

\* Line 209.
ReturnStatus ==
    /\ dl_pc = "loop"
    /\ Len(attempts) = Len(filenames)
    /\ dl_returned' = status
    /\ dl_pc' = "done"
    /\ UNCHANGED <<filenames, folder, status, attempts, dl_raised>>
    /\ UNCHANGED <<scanVars, callVars, dssVars, chunkVars, plotVars>>

NextDownload == Mkdir \/ Download \/ ReturnStatus

SpecDownload == InitDownload /\ [][NextDownload]_vars

----------------------------------------------------------------------------
(* getdss, interm_tesscut_dss_overlay.ipynb, lines 316-375.                *)

plateDict ==
    "red" :> "2r" @@ "blue" :> "2b" @@ "ukred" :> "poss2ukstu_red"
    @@ "ukblue" :> "poss2ukstu_blue"

\* The plate values passed: the four keys and two strings that are not keys.
Plates == DOMAIN plateDict \cup {"green", "RED"}

\* Heights and widths passed, in arcmin.
SizeValues == {0, 3, 5}

\* The default height and width.
DefaultSize == 7

\* Right ascensions and declinations passed, in degrees.
Coordinates == {0, 10}

\* File names passed: a relative one and an absolute one.
AbsoluteNames == {"/tmp/img.fits"}

GivenNames == {"img.fits"} \cup AbsoluteNames

\* Directories passed: None, the empty string and a directory's name.
Directories == {NoPath, "", "out"}

\* "{:.6f}".format(v)
Fixed6(v) == IF v = 0 THEN "0.000000" ELSE "10.000000"

\* "dss_{}_{:.6f}_{:.6f}.fits".format(plate, ra, dec)
DefaultName == "dss_" \o plate \o "_" \o Fixed6(ra) \o "_" \o Fixed6(dec) \o ".fits"

\* `if directory:` is false for None and for the empty string.
Truthy(d) == d # NoPath /\ d # ""

\* os.path.join(d, f): an absolute f discards d.
Join(d, f) == IF f \in AbsoluteNames THEN f ELSE d \o "/" \o f

\* Bytes are sequences of characters.
Signature == <<"S", "I", "M", "P", "L", "E", " ", " ", "=">>

\* bytes.startswith
StartsWith(content, prefix) ==
    /\ Len(content) >= Len(prefix)
    /\ SubSeq(content, 1, Len(prefix)) = prefix

\* What the server may answer: a FITS header, the signature alone, a header with
\* one space before the sign, a cut signature, lower case, a web page, nothing.
Replies ==
    { Signature \o <<" ", "T">>,
      Signature,
      <<"S", "I", "M", "P", "L", "E", " ", "=", " ", "T">>,
      <<"S", "I", "M", "P", "L", "E">>,
      <<"s", "i", "m", "p", "l", "e", " ", " ", "=">>,
      <<"<", "h", "t", "m", "l", ">">>,
      <<>> }

InitDss ==
    /\ ScanIdle
    /\ PlotIdle
    /\ DownloadIdle
    /\ ChunksIdle
    /\ plate \in Plates
    /\ ra \in Coordinates
    /\ dec \in Coordinates
    /\ height \in {None} \cup SizeValues
    /\ width \in {None} \cup SizeValues
    /\ filename \in {NoPath} \cup GivenNames
    /\ directory \in Directories
    /\ given = [height |-> height, width |-> width, filename |-> filename]
    /\ dir_exists \in BOOLEAN
    /\ vplate = NoPath
    /\ r_content = <<>>
    /\ requests_made = 0
    /\ disk = {}
    /\ dss_pc = "size"
    /\ dss_raised = "none"
    /\ dss_returned = NoPath

\* Lines 339 and 344: the side not given takes the value of the side given.
SquareFrom_default(side) == DefaultSize

SquareFrom(side) == side

\* Lines 337-344.
ResolveSize ==
    /\ dss_pc = "size"
    /\ IF height = None
       THEN IF width # None
            THEN /\ height' = SquareFrom(width)
                 /\ UNCHANGED width
            ELSE /\ height' = DefaultSize
                 /\ width' = DefaultSize
       ELSE IF width = None
            THEN /\ width' = SquareFrom(height)
                 /\ UNCHANGED height
            ELSE UNCHANGED <<height, width>>
    /\ dss_pc' = "plate"
    /\ UNCHANGED <<plate, ra, dec, filename, directory, given, dir_exists, vplate,
                   r_content, requests_made, disk, dss_raised, dss_returned>>
    /\ UNCHANGED <<scanVars, callVars, dlVars, chunkVars, plotVars>>

\* Lines 346-350: the KeyError of the lookup is turned into a ValueError.
LookupPlate ==
    /\ dss_pc = "plate"
    /\ IF plate \in DOMAIN plateDict
       THEN /\ vplate' = plateDict[plate]
            /\ dss_pc' = "name"
            /\ UNCHANGED dss_raised
       ELSE /\ dss_raised' = "ValueError"
            /\ dss_pc' = "done"
            /\ UNCHANGED vplate
    /\ UNCHANGED <<plate, ra, dec, height, width, filename, directory, given,
                   dir_exists, r_content, requests_made, disk, dss_returned>>
    /\ UNCHANGED <<scanVars, callVars, dlVars, chunkVars, plotVars>>

\* Lines 353-356.
BuildName ==
    /\ dss_pc = "name"
    /\ LET named == IF filename = NoPath THEN DefaultName ELSE filename
       IN  filename' = IF Truthy(directory) THEN Join(directory, named) ELSE named
    /\ dss_pc' = "request"
    /\ UNCHANGED <<plate, ra, dec, height, width, directory, given, dir_exists,
                   vplate, r_content, requests_made, disk, dss_raised, dss_returned>>
    /\ UNCHANGED <<scanVars, callVars, dlVars, chunkVars, plotVars>>

\* Lines 358-367: the request is answered, or requests.get raises.
Request ==
    /\ dss_pc = "request"
    /\ requests_made' = requests_made + 1
    /\ \/ /\ r_content' \in Replies
          /\ dss_pc' = "write"
          /\ UNCHANGED dss_raised
       \/ /\ dss_raised' = "ConnectionError"
          /\ dss_pc' = "done"
          /\ UNCHANGED r_content
    /\ UNCHANGED <<plate, ra, dec, height, width, filename, directory, given,
                   dir_exists, vplate, disk, dss_returned>>
    /\ UNCHANGED <<scanVars, callVars, dlVars, chunkVars, plotVars>>

\* Line 370: the test on the response.
IsFits_any(content) == Len(content) > 0

IsFits(content) == StartsWith(content, Signature)

\* `open(filename, "wb")` fails when the file's directory is missing.
CanOpen == filename \in AbsoluteNames \/ ~Truthy(directory) \/ dir_exists

\* Lines 370-375.
WriteFile ==
    /\ dss_pc = "write"
    /\ IF ~IsFits(r_content)
       THEN /\ dss_raised' = "ValueError"
            /\ UNCHANGED <<disk, dss_returned>>
       ELSE IF ~CanOpen
            THEN /\ dss_raised' = "FileNotFoundError"
                 /\ UNCHANGED <<disk, dss_returned>>
            ELSE /\ disk' = {f \in disk : f.name # filename}
                            \cup {[name |-> filename, content |-> r_content]}
                 /\ dss_returned' = filename
                 /\ UNCHANGED dss_raised
    /\ dss_pc' = "done"
    /\ UNCHANGED <<plate, ra, dec, height, width, filename, directory, given,
                   dir_exists, vplate, r_content, requests_made>>
    /\ UNCHANGED <<scanVars, callVars, dlVars, chunkVars, plotVars>>

NextDss == ResolveSize \/ LookupPlate \/ BuildName \/ Request \/ WriteFile

SpecDss == InitDss /\ [][NextDss]_vars

----------------------------------------------------------------------------
(* The chunking cell, src/unnamed/part_002, lines 99-100.                  *)

MaxObs == 11

sz_chunk == 5

\* Observations are told apart by their obsid.
ObsIds == 1 .. 2

InitChunks ==
    /\ ScanIdle
    /\ PlotIdle
    /\ DownloadIdle
    /\ DssIdle
    /\ matched_obs \in UNION {[1 .. L -> ObsIds] : L \in 0 .. MaxObs}
    /\ chunks = <<>>
    /\ chunk_i = 0
    /\ chunk_pc = "loop"

\* `t[a:b]` on a table of rows numbered from 0.
RowSlice(t, a, b) == SubSeq(t, Clip(a, Len(t)) + 1, Clip(b, Len(t)))

\* The stop of `matched_obs[i:i+sz_chunk]`.
ChunkStop_short(i) == i + sz_chunk - 1

ChunkStop(i) == i + sz_chunk

\* One element of the comprehension, for the next i of
\* `range(0, len(matched_obs), sz_chunk)`.
TakeChunk ==
    /\ chunk_pc = "loop"
    /\ chunk_i < Len(matched_obs)
    /\ chunks' = Append(chunks, RowSlice(matched_obs, chunk_i, ChunkStop(chunk_i)))
    /\ chunk_i' = chunk_i + sz_chunk
    /\ UNCHANGED <<matched_obs, chunk_pc>>
    /\ UNCHANGED <<scanVars, callVars, dlVars, dssVars, plotVars>>

\* The range is exhausted.
EndChunks ==
    /\ chunk_pc = "loop"
    /\ chunk_i >= Len(matched_obs)
    /\ chunk_pc' = "done"
    /\ UNCHANGED <<matched_obs, chunks, chunk_i>>
    /\ UNCHANGED <<scanVars, callVars, dlVars, dssVars, plotVars>>

NextChunks == TakeChunk \/ EndChunks

SpecChunks == InitChunks /\ [][NextChunks]_vars

----------------------------------------------------------------------------
(* plot_x_v_y_color, src/unnamed/part_000, lines 511-560, called on a      *)
(* segment that find_breaks returned.                                      *)

n_ticks == 10

\* len(mjd) for the segment seg.
SegLen(seg) == seg.stop - seg.start

\* int(len(mjd)/n_ticks): the quotient is not negative, int() drops its fraction.
TickStep(len) == len \div n_ticks

\* list(range(0, len, step)) for step > 0
TickIndices(len, step) == {i \in 0 .. len - 1 : i % step = 0}

InitPlot ==
    /\ InitState
    /\ (InitPaired \/ InitLong \/ InitScenario)
    /\ SingleCall
    /\ DownloadIdle
    /\ DssIdle
    /\ ChunksIdle
    /\ data = [start |-> 0, stop |-> 0]
    /\ indices = {}
    /\ plot_pc = "ready"
    /\ plot_raised = "none"

\* Lines 521-541 on one of the returned segments: range() with a step of 0
\* raises ValueError.
Plot ==
    /\ plot_pc = "ready"
    /\ pc = "done"
    /\ raised = "none"
    /\ \E k \in 1 .. Len(results) :
          /\ data' = results[k]
          /\ IF TickStep(SegLen(results[k])) = 0
             THEN /\ plot_raised' = "ValueError"
                  /\ UNCHANGED indices
             ELSE /\ indices' = TickIndices(SegLen(results[k]), TickStep(SegLen(results[k])))
                  /\ UNCHANGED plot_raised
    /\ plot_pc' = "done"
    /\ UNCHANGED <<scanVars, callVars, dlVars, dssVars, chunkVars>>

NextPlot == BuildFrame \/ Iterate \/ Finish \/ Plot

SpecPlot == InitPlot /\ [][NextPlot]_vars

----------------------------------------------------------------------------
(* Vocabulary of the properties, read off the inputs alone.                *)

InputLen == Size(x_data)

EqualLength == Size(x_data) = Size(y_data)

WellFormed == EqualLength /\ max_flats >= 1

Done == pc = "done"

Returned == pc = "done" /\ raised = "none"

\* Sample i carries the same x and y readings as sample i-1.
SameAsPrevious(i) ==
    /\ i \in 1 .. InputLen - 1
    /\ i \in DOMAIN y_data
    /\ x_data[i].euvalue = x_data[i - 1].euvalue
    /\ y_data[i].euvalue = y_data[i - 1].euvalue

\* The alignment keys of the two series agree at index i.
AlignedAt(i) ==
    i \in DOMAIN x_data /\ i \in DOMAIN y_data /\ x_data[i].MJD = y_data[i].MJD

MisalignedAt(i) == i \in 1 .. InputLen - 1 /\ ~AlignedAt(i)

FullyAligned == \A i \in 1 .. InputLen - 1 : AlignedAt(i)

\* An aligned sample with both readings unchanged: a flat sample.
FlatSample(i) == i \in 1 .. InputLen - 1 /\ AlignedAt(i) /\ SameAsPrevious(i)

\* An aligned sample at which x or y changed.
ChangedSample(i) == i \in 1 .. InputLen - 1 /\ AlignedAt(i) /\ ~SameAsPrevious(i)

\* Sample i lies in a stretch of unchanged readings: it repeats its predecessor
\* or is repeated by its successor.
InFlatStretch(i) == SameAsPrevious(i) \/ SameAsPrevious(i + 1)

\* The position of flat sample i within its run of consecutive flat samples
\* (0 when i is no flat sample).
RECURSIVE RunPos(_)
RunPos(i) == IF FlatSample(i) THEN 1 + RunPos(i - 1) ELSE 0

\* The last sample of the run of consecutive flat samples that holds i.
RECURSIVE RunEnd(_)
RunEnd(i) == IF FlatSample(i + 1) THEN RunEnd(i + 1) ELSE i

\* The number of samples in the run of consecutive flat samples that holds i.
RunLen(i) == RunPos(RunEnd(i))

\* Index i belongs to an emitted segment.
Covered(i) == \E k \in 1 .. Len(results) : results[k].start <= i /\ i < results[k].stop

WholeInput == [start |-> 0, stop |-> InputLen]

\* A step of the loop body.
IterateStep == pc = "scan" /\ pc' = "scan"

IsScenario ==
    /\ x_data = ScenarioFrame(Len(ScenarioVals))
    /\ y_data = ScenarioFrame(Len(ScenarioVals))
    /\ max_flats = DefaultMaxFlats

----------------------------------------------------------------------------
(* The properties.                                                         *)

\* C1: for equal-length, fully aligned series of more than one sample in which
\* every sample differs from its predecessor in x or y, and max_flats >= 1, the
\* call returns exactly one segment, the whole input [0, length). The code
\* returns nothing for two samples.
C1_FullyVaryingOneSegment ==
    (/\ Done
     /\ WellFormed
     /\ InputLen > 1
     /\ FullyAligned
     /\ \A i \in 1 .. InputLen - 1 : ~SameAsPrevious(i))
    => (raised = "none" /\ results = <<WholeInput>>)

\* C2, as claimed: whenever the call returns for equal-length series in which
\* every sample repeats its predecessor (aligned or not, of any length), with
\* max_flats >= 1, the result is empty.
C2_AllFlatEmpty_AsClaimed ==
    (/\ Returned
     /\ WellFormed
     /\ \A i \in 1 .. InputLen - 1 : SameAsPrevious(i))
    => results = <<>>

\* C2, amended: for fully aligned equal-length series of at least max_flats + 1
\* samples in which every sample repeats its predecessor, with max_flats >= 1,
\* the call returns the empty list.
C2_LongAlignedFlatEmpty ==
    (/\ Done
     /\ WellFormed
     /\ FullyAligned
     /\ InputLen >= max_flats + 1
     /\ \A i \in 1 .. InputLen - 1 : SameAsPrevious(i))
    => (raised = "none" /\ results = <<>>)

C2_Witness ==
    /\ Returned
    /\ WellFormed
    /\ max_flats >= 2
    /\ FullyAligned
    /\ InputLen >= max_flats + 1
    /\ \A i \in 1 .. InputLen - 1 : SameAsPrevious(i)
    /\ results = <<>>

\* C3, as claimed: at a flat sample met while recording, with max_flats >= 1,
\* whatever came earlier in the segment: if the sample's run of consecutive flat
\* samples has exactly max_flats - 1 samples and a changed sample follows it,
\* recording stays true; if the run has exactly max_flats samples, recording
\* stays true before the run's last sample and becomes false at it.
C3_RunBoundary_AsClaimed ==
    [][(IterateStep /\ WellFormed /\ recording /\ FlatSample(n'))
       => /\ (RunLen(n') = max_flats - 1 /\ ChangedSample(RunEnd(n') + 1))
                => recording'
          /\ (RunLen(n') = max_flats)
                => (recording' <=> n' # RunEnd(n'))]_vars

\* C3, amended: at a flat sample met while recording, with max_flats >= 1, the
\* segment is closed exactly when the flat samples counted since the segment
\* started reach max_flats (changed samples do not reset the count). So the
\* boundary of the claim holds for a run that starts with a count of 0: a run of
\* exactly max_flats - 1 samples followed by a change leaves recording true, and
\* a run of exactly max_flats samples turns it false at its last sample.
C3_RunBoundary_FromZero ==
    [][(IterateStep /\ WellFormed /\ recording /\ FlatSample(n'))
       => /\ recording' <=> (flat + 1 < max_flats)
          /\ (flat + 1 = RunPos(n'))
                => /\ (RunLen(n') = max_flats - 1 /\ ChangedSample(RunEnd(n') + 1))
                        => recording'
                   /\ (RunLen(n') = max_flats)
                        => (recording' <=> n' # RunEnd(n'))]_vars

\* A run of exactly max_flats flat samples, counted from 0, has just closed the
\* segment at its last sample.
C3_Witness ==
    /\ pc = "scan"
    /\ WellFormed
    /\ max_flats >= 2
    /\ n # Unbound
    /\ FlatSample(n)
    /\ RunPos(n) = max_flats
    /\ RunLen(n) = max_flats
    /\ flat = max_flats
    /\ ~recording

\* C4: for equal-length series and max_flats >= 1, the emitted segments are
\* pairwise disjoint and in strictly increasing start order: a segment stops
\* before the next one starts.
C4_SegmentsOrdered ==
    WellFormed =>
        \A i, j \in 1 .. Len(results) :
            i < j => /\ results[i].stop <= results[j].start
                     /\ results[i].start < results[j].start

C4_Witness == Returned /\ WellFormed /\ Len(results) >= 2

\* C5, as claimed, for the samples whose fate is settled before the trailing
\* span: an index in no emitted segment is misaligned or lies in a stretch of
\* unchanged readings.
C5_GapsOnlyFlatOrMisaligned_AsClaimed ==
    (Returned /\ WellFormed) =>
        \A i \in 0 .. InputLen - 1 :
            (~Covered(i) /\ (i < m \/ ~recording))
                => (MisalignedAt(i) \/ InFlatStretch(i))

\* C5, amended: for equal-length series and max_flats >= 1, an index in no
\* emitted segment is misaligned, or lies in a stretch of unchanged readings, or
\* comes at most max_flats + 1 positions before a flat sample (the samples cut
\* off the end of a closed span, and a closed span too short to emit), or is one
\* of the last two samples (a trailing span of at most two samples).
C5_GapsExplained ==
    (Returned /\ WellFormed) =>
        \A i \in 0 .. InputLen - 1 :
            ~Covered(i)
                => \/ MisalignedAt(i)
                   \/ InFlatStretch(i)
                   \/ \E k \in i + 1 .. i + max_flats + 1 : FlatSample(k)
                   \/ i >= InputLen - 2

\* A changed sample outside every flat stretch, not among the last two samples,
\* is left out of the output.
C5_Witness ==
    /\ Returned
    /\ WellFormed
    /\ \E i \in 1 .. InputLen - 3 :
          /\ ChangedSample(i)
          /\ ~InFlatStretch(i)
          /\ ~Covered(i)
          /\ \E k \in 1 .. Len(results) : results[k].stop <= i

\* C6: for equal-length series and max_flats >= 1, every emitted segment holds
\* at least two samples.
C6_SegmentsLongerThanOne ==
    WellFormed =>
        \A k \in 1 .. Len(results) : results[k].stop - results[k].start >= 2

C6_Witness ==
    /\ Returned
    /\ WellFormed
    /\ \E k \in 1 .. Len(results) : results[k].stop - results[k].start = 2

\* C7: for series of different lengths (and a valid threshold) the call ends in
\* ValueError, the invalid-argument error, before any sample is scanned and with
\* no segment emitted, whichever series is the longer.
C7_UnequalLengthsRejected ==
    (Done /\ ~EqualLength /\ max_flats >= 1)
        => (raised = "ValueError" /\ n = Unbound /\ results = <<>>)

\* C8: for max_flats <= 0 (on series of at least two samples, which the loop can
\* scan) no sample is ever scanned, no segment is emitted and the call ends in
\* ValueError.
C8_NonPositiveThresholdRejected ==
    (EqualLength /\ InputLen >= 2 /\ max_flats <= 0)
        => /\ n = Unbound
           /\ results = <<>>
           /\ Done => raised = "ValueError"

\* C9: for equal-length series of fewer than two samples (and a valid
\* threshold) the call returns the empty list and raises nothing.
C9_ShortInputReturnsEmpty ==
    (Done /\ WellFormed /\ InputLen < 2)
        => (raised = "none" /\ results = <<>>)

\* C10, as claimed: the scenario returns exactly one segment, [1, 4).
C10_Scenario_AsClaimed ==
    (Done /\ IsScenario)
        => (raised = "none" /\ results = <<[start |-> 1, stop |-> 4]>>)

\* C10, amended: on the scenario nothing is emitted before index 7; the flat
\* sample at index 7, inside the run of repeated 2s, closes the span and emits
\* [0, 2); recording restarts at the last sample, index 9, and that trailing
\* single sample is not emitted: the call returns exactly the segment [0, 2).
C10_Scenario_Traced ==
    IsScenario =>
        /\ (pc = "scan" /\ (n = Unbound \/ n < 7)) => (results = <<>> /\ recording)
        /\ (pc = "scan" /\ n >= 7) => results = <<[start |-> 0, stop |-> 2]>>
        /\ (pc = "scan" /\ n \in {7, 8}) => ~recording
        /\ Done => /\ raised = "none"
                   /\ results = <<[start |-> 0, stop |-> 2]>>
                   /\ recording
                   /\ m = 9

C10_Witness ==
    Returned /\ IsScenario /\ results = <<[start |-> 0, stop |-> 2]>> /\ m = 9

\* The number of flat samples inside a segment: aligned samples of the segment
\* that repeat the sample before them, itself in the segment.
FlatsInside(seg) == Cardinality({i \in seg.start + 1 .. seg.stop - 1 : FlatSample(i)})

\* The step that runs the code after the loop.
FinishStep == pc = "scan" /\ pc' = "done"

\* C11, as claimed: in a returned segment no aligned sample repeats the sample
\* before it (equal-length series, max_flats >= 1).
C11_OnlyChangingData_AsClaimed ==
    (Returned /\ WellFormed) =>
        \A k \in 1 .. Len(results) : FlatsInside(results[k]) = 0

\* C11, amended: every returned segment is a range [start, stop) of the combined
\* frame with start < stop <= length that holds fewer than max_flats flat
\* samples (none when max_flats = 1).
C11_FewerFlatsThanThreshold ==
    (Returned /\ WellFormed) =>
        \A k \in 1 .. Len(results) :
            /\ 0 <= results[k].start
            /\ results[k].start < results[k].stop
            /\ results[k].stop <= Size(xy_frame)
            /\ FlatsInside(results[k]) < max_flats

\* A returned segment holds max_flats - 1 >= 1 flat samples.
C11_Witness ==
    /\ Returned
    /\ WellFormed
    /\ max_flats >= 2
    /\ \E k \in 1 .. Len(results) : FlatsInside(results[k]) = max_flats - 1

\* C13: for equal-length series and max_flats >= 1 the call ends without raising,
\* having visited every index 1..length-1 (the last one visited is length - 1).
C13_ScanIsTotal ==
    (Done /\ WellFormed) =>
        /\ raised = "none"
        /\ InputLen >= 2 => n = InputLen - 1

\* C19: the code after the loop appends exactly the segment [m, length) when
\* recording holds and the trailing span has more than one sample
\* (length - m > 1), and appends nothing otherwise (equal-length series,
\* max_flats >= 1).
C19_TrailingSpanEmitted ==
    [][(FinishStep /\ WellFormed)
       => results' = IF recording /\ InputLen - m > 1
                     THEN Append(results, [start |-> m, stop |-> InputLen])
                     ELSE results]_vars

\* C20: at an aligned flat sample n met while recording (equal-length series,
\* max_flats >= 1) the count goes up by one; if it then reaches max_flats,
\* recording becomes false and the segment [m, n - max_flats) is appended exactly
\* when n - max_flats - m > 1; if it stays below max_flats, recording stays true
\* and nothing is appended. The span start m is left alone.
C20_FlatStepWhileRecording ==
    [][(IterateStep /\ WellFormed /\ recording /\ FlatSample(n'))
       => /\ flat' = flat + 1
          /\ m' = m
          /\ IF flat + 1 >= max_flats
             THEN /\ ~recording'
                  /\ results' =
                        IF n' - max_flats - m > 1
                        THEN Append(results, [start |-> m, stop |-> n' - max_flats])
                        ELSE results
             ELSE recording' /\ results' = results]_vars

\* A flat sample has just closed the span and emitted its segment, after flat
\* samples that left recording on.
C20_Witness ==
    /\ pc = "scan"
    /\ WellFormed
    /\ max_flats >= 2
    /\ n # Unbound
    /\ FlatSample(n)
    /\ flat = max_flats
    /\ ~recording
    /\ Len(results) >= 1
    /\ results[Len(results)] = [start |-> m, stop |-> n - max_flats]

\* The call of thread A, running or switched out.
FrameA == IF running = "A" THEN Locals ELSE other

\* C12: a second call of find_breaks on the arguments of the first ends as the
\* first did: the same exception, or the same list of segments in the same order.
C12_SecondCallSameOutcome ==
    (call = 2 /\ pc = "done") => Outcome(Locals) = previous

\* The second call has returned one segment or more, as the first did.
C12_Witness ==
    /\ call = 2
    /\ pc = "done"
    /\ raised = "none"
    /\ Len(results) >= 1
    /\ previous = [raised |-> "none", results |-> results]

\* C14: thread A's call, interleaved step by step with the call of thread B,
\* ends as the same call ended when it ran alone.
C14_InterleavedCallSameOutcome ==
    (call = 2 /\ FrameA.pc = "done") => Outcome(FrameA) = previous

\* Both threads have returned a segment after they were switched inside their
\* loops, and thread B's count and list differ from thread A's.
C14_Witness ==
    /\ call = 2
    /\ running = "B"
    /\ preempted
    /\ other.pc = "done"
    /\ other.raised = "none"
    /\ Len(other.results) >= 1
    /\ pc = "done"
    /\ raised = "none"
    /\ Len(results) >= 1
    /\ flat # other.flat
    /\ results # other.results

\* The outcomes of the urlretrieve calls made.
AttemptOutcomes == {attempts[k].outcome : k \in 1 .. Len(attempts)}

\* C15: download_edb_datafiles returns 1 when a download raised HTTPError and 0
\* when none did, and a status of 1 stays 1 whatever the later files do.
C15_StatusReportsHttpErrors ==
    /\ [](dl_returned # Unbound =>
             /\ dl_returned \in {0, 1}
             /\ (dl_returned = 0 <=> "HTTPError" \notin AttemptOutcomes)
             /\ (dl_returned = 1 <=> "HTTPError" \in AttemptOutcomes))
    /\ [][status = 1 => status' = 1]_vars

\* 1 is returned after a failed file was followed by a file that was saved.
C15_Witness ==
    /\ dl_pc = "done"
    /\ dl_returned = 1
    /\ Len(attempts) = 3
    /\ attempts[1].outcome = "HTTPError"
    /\ attempts[2].outcome = "ok"
    /\ attempts[3].outcome = "ok"

\* C16: once getdss is past its size defaults, height and width are both set:
\* 7.0 each when neither was given, the given one when one was, and the given
\* two when both were.
C16_SizeResolved ==
    dss_pc \notin {"off", "size"} =>
        /\ height # None
        /\ width # None
        /\ (given.height = None /\ given.width = None =>
                height = DefaultSize /\ width = DefaultSize)
        /\ (given.height = None /\ given.width # None =>
                height = given.width /\ width = given.width)
        /\ (given.height # None /\ given.width = None =>
                height = given.height /\ width = given.height)
        /\ (given.height # None /\ given.width # None =>
                height = given.height /\ width = given.width)

\* The request was sent for a call given a width of 3 and no height.
C16_Witness ==
    /\ requests_made = 1
    /\ given.height = None
    /\ given.width = 3
    /\ height = 3
    /\ width = 3

\* C17: getdss returns a name and writes that file only for a plate among the
\* four keys and a response starting with 'SIMPLE  ='; another plate raises
\* ValueError with no request sent; a response that does not start with the
\* signature raises ValueError with no file written.
C17_WritesOnlyFits ==
    /\ (dss_returned # NoPath \/ disk # {} =>
            /\ plate \in {"red", "blue", "ukred", "ukblue"}
            /\ requests_made = 1
            /\ StartsWith(r_content, Signature)
            /\ dss_returned = filename
            /\ disk = {[name |-> filename, content |-> r_content]})
    /\ (plate \notin {"red", "blue", "ukred", "ukblue"} =>
            /\ requests_made = 0
            /\ (dss_pc = "done" => dss_raised = "ValueError"))
    /\ (dss_pc = "done" /\ requests_made = 1 /\ dss_raised # "ConnectionError"
        /\ ~StartsWith(r_content, Signature) =>
            /\ dss_raised = "ValueError"
            /\ disk = {}
            /\ dss_returned = NoPath)

\* A response with one space before the sign was refused and nothing written.
C17_Witness ==
    /\ dss_pc = "done"
    /\ plate = "ukblue"
    /\ requests_made = 1
    /\ r_content = <<"S", "I", "M", "P", "L", "E", " ", "=", " ", "T">>
    /\ dss_raised = "ValueError"
    /\ disk = {}

\* `chunks` joined end to end.
RECURSIVE Joined(_)
Joined(cs) == IF cs = <<>> THEN <<>> ELSE Head(cs) \o Joined(Tail(cs))

\* C18: the chunks are an ordered partition of matched_obs: joined in order they
\* give matched_obs back, each holds 1 to 5 observations, only the last may hold
\* fewer than 5, and there is none when matched_obs is empty.
C18_ChunksPartition ==
    chunk_pc = "done" =>
        /\ Joined(chunks) = matched_obs
        /\ \A k \in 1 .. Len(chunks) : Len(chunks[k]) \in 1 .. 5
        /\ \A k \in 1 .. Len(chunks) - 1 : Len(chunks[k]) = 5
        /\ (matched_obs = <<>> => chunks = <<>>)

\* Eleven observations were split into chunks of 5, 5 and 1.
C18_Witness ==
    /\ chunk_pc = "done"
    /\ Len(matched_obs) = 11
    /\ Len(chunks) = 3
    /\ Len(chunks[3]) = 1

\* C21: a loop step at an index whose alignment keys differ leaves recording,
\* flat, m and the emitted segments as they were and raises nothing, whatever
\* the readings there and whether or not a span is being recorded.
C21_MisalignedStepChangesNothing ==
    [][(IterateStep /\ MisalignedAt(n'))
       => /\ recording' = recording
          /\ flat' = flat
          /\ m' = m
          /\ results' = results
          /\ raised' = "none"]_vars

\* Misaligned samples were skipped both while recording and while not: the
\* sample skipped last repeats its predecessor, an earlier one does not, the
\* span is closed and the count stands at the threshold.
C21_Witness ==
    /\ pc = "scan"
    /\ n # Unbound
    /\ n >= 3
    /\ MisalignedAt(n)
    /\ SameAsPrevious(n)
    /\ \E i \in 1 .. n - 1 : MisalignedAt(i) /\ ~SameAsPrevious(i)
    /\ ~recording
    /\ max_flats >= 1
    /\ flat = max_flats

\* C22: a loop step at an aligned sample where x or y changed, met while
\* recording, leaves recording, flat, m and the emitted segments as they were;
\* the count only ever goes down on a restart, where it becomes 0.
C22_ChangeWhileRecordingKeepsState ==
    [][/\ (IterateStep /\ recording /\ ChangedSample(n'))
          => /\ recording'
             /\ flat' = flat
             /\ m' = m
             /\ results' = results
       /\ (IterateStep /\ flat' < flat)
          => ~recording /\ recording' /\ flat' = 0]_vars

\* A span was closed by flat samples that a changed sample separates: the flat
\* sample that closed it is the first of its run, and the threshold is 2 or more.
C22_Witness ==
    /\ pc = "scan"
    /\ WellFormed
    /\ FullyAligned
    /\ max_flats >= 2
    /\ n # Unbound
    /\ FlatSample(n)
    /\ ChangedSample(n - 1)
    /\ ~recording
    /\ flat = max_flats
    /\ m = 0

\* C23: a loop step at an aligned sample n where x or y changed, met while not
\* recording, sets flat to 0, m to n and recording to true, and appends nothing.
C23_RestartOnChange ==
    [][(IterateStep /\ ~recording /\ ChangedSample(n'))
       => /\ flat' = 0
          /\ m' = n'
          /\ recording'
          /\ results' = results]_vars

\* A span has just been restarted at the changed sample n, after a segment was
\* emitted.
C23_Witness ==
    /\ pc = "scan"
    /\ WellFormed
    /\ n # Unbound
    /\ ChangedSample(n)
    /\ recording
    /\ m = n
    /\ flat = 0
    /\ Len(results) >= 1

\* C24: every step of a call leaves the list of emitted segments as it is or
\* appends one segment at its end.
C24_ResultsAppendOnly ==
    [][\/ results' = results
       \/ /\ Len(results') = Len(results) + 1
          /\ SubSeq(results', 1, Len(results)) = results]_vars

\* A third segment has been appended after two others.
C24_Witness ==
    /\ Returned
    /\ Len(results) >= 3

\* C25: for max_flats >= 1, before the first loop iteration and after each one,
\* recording holds exactly when flat < max_flats.
C25_RecordingIffBelowThreshold ==
    (pc = "scan" /\ max_flats >= 1) => (recording <=> flat < max_flats)

\* Recording is off after an iteration and the count has passed the threshold.
C25_Witness ==
    /\ pc = "scan"
    /\ max_flats >= 1
    /\ n # Unbound
    /\ ~recording
    /\ flat > max_flats

\* C26: for max_flats >= 1, flat <= n - m after every loop iteration, and on the
\* step that closes a span the slice end n - max_flats lies between m and n.
C26_FlatWithinSpan ==
    /\ []((pc = "scan" /\ max_flats >= 1 /\ n # Unbound) => flat <= n - m)
    /\ [][(IterateStep /\ max_flats >= 1 /\ recording /\ ~recording')
          => /\ m <= n' - max_flats
             /\ n' - max_flats <= n'
             /\ n' - max_flats >= 0]_vars

\* A span restarted at m >= 1 has been closed with its slice end exactly at m.
C26_Witness ==
    /\ pc = "scan"
    /\ max_flats >= 1
    /\ n # Unbound
    /\ ~recording
    /\ m >= 1
    /\ flat = max_flats
    /\ n - max_flats = m

\* The pairs of consecutive samples inside seg with both readings unchanged.
UnchangedPairs(seg) ==
    Cardinality({i \in seg.start + 1 .. seg.stop - 1 : SameAsPrevious(i)})

\* C27: when every index is aligned and max_flats >= 1, each returned segment
\* holds fewer than max_flats pairs of consecutive samples with x and y unchanged.
C27_FewerUnchangedPairsThanThreshold ==
    (Returned /\ EqualLength /\ FullyAligned /\ max_flats >= 1) =>
        \A k \in 1 .. Len(results) : UnchangedPairs(results[k]) < max_flats

\* A closed segment and the final one each hold max_flats - 1 unchanged pairs.
C27_Witness ==
    /\ Returned
    /\ EqualLength
    /\ FullyAligned
    /\ max_flats >= 2
    /\ Len(results) >= 2
    /\ UnchangedPairs(results[1]) = max_flats - 1
    /\ UnchangedPairs(results[Len(results)]) = max_flats - 1
    /\ results[Len(results)].stop = InputLen

\* C28: each returned segment starts at index 0 or at an aligned sample where x
\* or y changed; only the first segment may start at index 0.
C28_SegmentStarts ==
    Returned =>
        /\ \A k \in 1 .. Len(results) :
              results[k].start = 0 \/ ChangedSample(results[k].start)
        /\ \A k \in 2 .. Len(results) : results[k].start # 0

\* Two segments are returned: the first starts at 0, the second at a restart.
C28_Witness ==
    /\ Returned
    /\ Len(results) >= 2
    /\ results[1].start = 0
    /\ ChangedSample(results[2].start)

\* C29: plot_x_v_y_color takes every segment find_breaks returns (equal-length
\* series, max_flats >= 1): the step int(len / n_ticks) of its tick indices is 1
\* or more and nothing is raised.
C29_EverySegmentPlotted ==
    (plot_pc = "done" /\ WellFormed) =>
        (TickStep(SegLen(data)) >= 1 /\ plot_raised = "none")

\* C30: download_edb_datafiles calls urlretrieve for the names of filenames in
\* their order, once each: a call that raised HTTPError is followed by the call
\* for the next name, only an exception other than HTTPError ends the loop
\* early, and a value is returned only after the last name.
C30_EveryFileAttemptedInOrder ==
    /\ Len(attempts) <= Len(filenames)
    /\ \A k \in 1 .. Len(attempts) : attempts[k].fname = filenames[k]
    /\ \A k \in 1 .. Len(attempts) - 1 : attempts[k].outcome \in {"ok", "HTTPError"}
    /\ (dl_pc = "done" /\ Len(attempts) < Len(filenames) => dl_raised # "none")
    /\ (dl_returned # Unbound => Len(attempts) = Len(filenames))

\* Three files were attempted and a value returned although the first and the
\* second raised HTTPError; the names differ.
C30_Witness ==
    /\ dl_returned # Unbound
    /\ Len(filenames) = 3
    /\ filenames[1] # filenames[2]
    /\ filenames[2] # filenames[3]
    /\ attempts[1].outcome = "HTTPError"
    /\ attempts[2].outcome = "HTTPError"
    /\ attempts[3].outcome = "ok"

====
